---------------------------- MODULE Spec2Model ----------------------------
(***************************************************************************)
(* A model of chessland_puzzler: the notation validator (domain/pgn.rs),   *)
(* the Stockfish line protocol (stockfish.rs, domain/stockfish.rs), the    *)
(* blunder scan and puzzle assembly (puzzle.rs, domain/puzzle.rs) and the  *)
(* HTTP handler sharing one engine session (http/handler.rs, http/app.rs). *)
(*                                                                         *)
(* Text is modelled as sequences of one-character strings, so that the     *)
(* character-level code (sanitize_move, validate_sanitized_move, the       *)
(* move-number filter) is computed and not assumed.                        *)
(***************************************************************************)
EXTENDS Integers, Sequences, FiniteSets, TLC

VARIABLES
    \* ---- notation validator (domain/pgn.rs)
    rawTokens,      \* the whitespace-separated tokens of the input text
    parsed,         \* the value returned by Pgn::from_str, or NoResult
    \* ---- one engine session driven by one caller (stockfish.rs)
    engAlive,       \* the engine process is running and answers commands
    engPos,         \* the position the engine holds (0: the start position)
    engOut,         \* the lines of the engine's stdout not yet read
    engTrace,       \* writes and reads of the session, in program order
    callPc,         \* position of the caller inside eval_pos / best_move_for_pos
    callKind,       \* "eval" or "best": the call in progress
    callPos,        \* the position the call was asked about
    callDepth,      \* the depth a best-move call was asked for
    callRet,        \* what the last call returned (or how it failed)
    callsDone,      \* number of calls completed on the session
    \* ---- HTTP service (http/handler.rs, http/app.rs)
    reqBody,        \* per request: the tokens of the "PGN" field of its body
    reqPc,          \* per request: position inside create_puzzle
    reqLeft,        \* per request: engine exchanges its run still has to make
    mutexHolder,    \* the request holding the MutexGuard, or NoOne
    mutexPoisoned,  \* std::sync::Mutex poison flag
    inFlight,       \* requests with an engine exchange written and not yet read
    engineLog,      \* the owner of every engine command and read, in order
    engineFailed,   \* an engine failure has happened during some request
    \* ---- puzzle selector (puzzle.rs)
    game,           \* the validated game: a sequence of moves
    lvl,            \* the requested PuzzleLevel
    pzPc,           \* position inside generate_puzzle_by_position_analysis
    from,           \* scan window start
    to,             \* scan window end (exclusive)
    scanIdx,        \* loop variable i of the scan
    board,          \* the local board of the generator
    side_to_move,   \* the local side_to_move of the generator
    positions_and_eval, \* the recorded candidates
    chosen,         \* the candidate returned by highest_delta_position_for_side
    result_notation,\* the setup+blunder prefix
    notation,       \* the notation under construction in finalize_puzzle
    asked,          \* the position each appended solution move was requested for
    puzzle,         \* the returned Puzzle, or NoResult
    \* ---- one call of compute_delta (puzzle.rs, domain/puzzle.rs)
    deltaPos,       \* the argument pos_eval
    deltaBest,      \* the argument best_move_eval
    deltaRet        \* the value returned, or NoResult

pgnVars == <<rawTokens, parsed>>
engVars == <<engAlive, engPos, engOut, engTrace, callPc, callKind, callPos,
             callDepth, callRet, callsDone>>
httpVars == <<reqBody, reqPc, reqLeft, mutexHolder, mutexPoisoned, inFlight, engineLog,
              engineFailed>>
puzVars == <<game, lvl, pzPc, from, to, scanIdx, board, side_to_move,
             positions_and_eval, chosen, result_notation, notation, asked,
             puzzle>>
deltaVars == <<deltaPos, deltaBest, deltaRet>>
vars == <<pgnVars, engVars, httpVars, puzVars, deltaVars>>

NoResult == [tag |-> "none"]
NoOne == 0

(***************************************************************************)
(* The parts of the state a specification does not use stay at these idle  *)
(* values.                                                                 *)
(***************************************************************************)
PgnIdle == rawTokens = <<>> /\ parsed = NoResult
EngIdle ==
    /\ engAlive = TRUE /\ engPos = 0 /\ engOut = <<>> /\ engTrace = <<>>
    /\ callPc = "idle" /\ callKind = "none" /\ callPos = 0 /\ callDepth = 0
    /\ callRet = NoResult /\ callsDone = 0
HttpIdle ==
    /\ reqBody = <<>> /\ reqPc = <<>> /\ reqLeft = <<>> /\ mutexHolder = NoOne
    /\ mutexPoisoned = FALSE /\ inFlight = {} /\ engineLog = <<>>
    /\ engineFailed = FALSE
PuzIdle ==
    /\ game = <<>> /\ lvl = "Easy" /\ pzPc = "idle" /\ from = 0 /\ to = 0
    /\ scanIdx = 0 /\ board = NoResult /\ side_to_move = "White"
    /\ positions_and_eval = <<>>
    /\ chosen = NoResult /\ result_notation = <<>> /\ notation = <<>>
    /\ asked = <<>> /\ puzzle = NoResult
DeltaIdle == deltaPos = NoResult /\ deltaBest = NoResult /\ deltaRet = NoResult

(***************************************************************************)
(*                    NOTATION VALIDATOR  (domain/pgn.rs)                  *)
(***************************************************************************)

UpperChars == <<"A","B","C","D","E","F","G","H","I","J","K","L","M",
                "N","O","P","Q","R","S","T","U","V","W","X","Y","Z">>
LowerChars == <<"a","b","c","d","e","f","g","h","i","j","k","l","m",
                "n","o","p","q","r","s","t","u","v","w","x","y","z">>
DigitChars == <<"0","1","2","3","4","5","6","7","8","9">>

Range(s) == {s[i] : i \in DOMAIN s}

\* char::is_uppercase, on the ASCII letters the inputs are drawn from
is_uppercase(c) == c \in Range(UpperChars)

\* char::to_ascii_lowercase
to_ascii_lowercase(c) ==
    IF c \in Range(UpperChars)
    THEN LowerChars[CHOOSE i \in DOMAIN UpperChars : UpperChars[i] = c]
    ELSE c

\* char::to_digit(10): the digit's value, or -1 for None
to_digit(c) ==
    IF c \in Range(DigitChars)
    THEN (CHOOSE i \in DOMAIN DigitChars : DigitChars[i] = c) - 1
    ELSE -1

is_valid_file(c) == c \in {"a","b","c","d","e","f","g","h"}

\* A rank test for the eight ranks of the board.
is_valid_rank_boardOnly(c) == to_digit(c) # -1 /\ to_digit(c) \in 1..8

is_valid_rank(c) == to_digit(c) # -1 /\ to_digit(c) \in 1..10

\* The characters sanitize_move removes: "x+#=-"
Decoration == {"x", "+", "#", "=", "-"}

\* A sanitizer that removes every uppercase letter.
sanitize_move_everyUppercase(mov) ==
    SelectSeq(mov, LAMBDA c : ~is_uppercase(c) /\ c \notin Decoration)

sanitize_move(mov) ==
    LET m1 == IF Len(mov) > 0 /\ is_uppercase(mov[1]) THEN Tail(mov) ELSE mov
    IN  SelectSeq(m1, LAMBDA c : c \notin Decoration)

\* One line of an error message: the format string (kind), the text
\* interpolated into it, and the number interpolated into it.
ErrLine(kind, text, num) == [kind |-> kind, text |-> text, num |-> num]

LengthErr(mov) == ErrLine("expected {mov} to have length of 4 or 5", mov, 0)
FileErr(c) ==
    ErrLine("first and third char must be any character between a-h, but got {character}", <<c>>, 0)
RankErr(c) ==
    ErrLine("second and fourth char must be any digit between 1-9, but got {character}", <<c>>, 0)
PromotionErr(c) ==
    ErrLine("fifth char must be one of q/r/b/n, but got {promotion}", <<c>>, 0)
CastleErr(str) == ErrLine("expected O-O or O-O-O, got {str}", str, 0)
MoveNumLine(n) == ErrLine("move num:{}", <<>>, n)

\* The closure mapped over mov.chars().enumerate(): the error lines of the
\* character at (0-based) idx, at most one.
CharError(idx, character) ==
    IF (idx = 0 \/ idx = 2) /\ ~is_valid_file(character)
    THEN <<FileErr(character)>>
    ELSE IF (idx = 1 \/ idx = 3) /\ ~is_valid_rank(character)
    THEN <<RankErr(character)>>
    ELSE IF idx = 4 /\ to_ascii_lowercase(character) \notin {"q", "r", "b", "n"}
    THEN <<PromotionErr(to_ascii_lowercase(character))>>
    ELSE <<>>

RECURSIVE CharErrors(_, _)
CharErrors(mov, k) ==
    IF k > Len(mov) THEN <<>>
    ELSE CharError(k - 1, mov[k]) \o CharErrors(mov, k + 1)

\* A validation that forgets the length test.
validate_sanitized_move_noLength(mov) == CharErrors(mov, 1)

\* The lines of the Err of validate_sanitized_move; <<>> stands for Ok(()).
validate_sanitized_move(mov) ==
    IF Len(mov) < 4 \/ Len(mov) > 5
    THEN <<LengthErr(mov)>>
    ELSE CharErrors(mov, 1)

\* Result<String, String>: ok, the Ok value, the lines of the Err value.
Ok(val) == [ok |-> TRUE, val |-> val, err |-> <<>>]
Err(lines) == [ok |-> FALSE, val |-> <<>>, err |-> lines]

validate_mov_chars(mov) ==
    LET sanitized == sanitize_move(mov)
        e == validate_sanitized_move(sanitized)
    IN  IF e = <<>> THEN Ok(sanitized) ELSE Err(e)

CastleShort == <<"O", "-", "O">>
CastleLong == <<"O", "-", "O", "-", "O">>
BadCastles == { <<"o", "-", "o">>, <<"o", "-", "o", "-", "o">>,
                <<"0", "-", "0">>, <<"0", "-", "0", "-", "0">> }

\* A validate_move without the arm for the lowercase and zero spellings.
validate_move_noVariantArm(side, str) ==
    IF side = "White" /\ str = CastleShort THEN Ok(<<"e", "1", "g", "1">>)
    ELSE IF side = "White" /\ str = CastleLong THEN Ok(<<"e", "1", "c", "1">>)
    ELSE IF side = "Black" /\ str = CastleShort THEN Ok(<<"e", "8", "g", "8">>)
    ELSE IF side = "Black" /\ str = CastleLong THEN Ok(<<"e", "8", "c", "8">>)
    ELSE validate_mov_chars(str)

\* Pgn::validate_move(Side::White(str) | Side::Black(str))
validate_move(side, str) ==
    IF side = "White" /\ str = CastleShort THEN Ok(<<"e", "1", "g", "1">>)
    ELSE IF side = "White" /\ str = CastleLong THEN Ok(<<"e", "1", "c", "1">>)
    ELSE IF side = "Black" /\ str = CastleShort THEN Ok(<<"e", "8", "g", "8">>)
    ELSE IF side = "Black" /\ str = CastleLong THEN Ok(<<"e", "8", "c", "8">>)
    ELSE IF str \in BadCastles THEN Err(<<CastleErr(str)>>)
    ELSE validate_mov_chars(str)

\* ---- str::parse::<u64>() ------------------------------------------------
\* u64::MAX = 18446744073709551615, as its decimal digits
U64MaxDigits == <<1,8,4,4,6,7,4,4,0,7,3,7,0,9,5,5,1,6,1,5>>

RECURSIVE StripZeros(_)
StripZeros(ds) ==
    IF Len(ds) > 1 /\ ds[1] = 0 THEN StripZeros(Tail(ds)) ELSE ds

\* ds <= es for digit sequences of the same length
RECURSIVE DigitsLeq(_, _)
DigitsLeq(ds, es) ==
    IF ds = <<>> THEN TRUE
    ELSE IF ds[1] < es[1] THEN TRUE
    ELSE IF ds[1] > es[1] THEN FALSE
    ELSE DigitsLeq(Tail(ds), Tail(es))

\* An optional leading '+', then one or more decimal digits whose value fits
\* in 64 bits.
parse_u64_is_ok(s) ==
    LET body == IF Len(s) > 1 /\ s[1] = "+" THEN Tail(s) ELSE s
        ds == StripZeros([i \in 1..Len(body) |-> to_digit(body[i])])
    IN  /\ Len(body) > 0
        /\ \A i \in 1..Len(body) : to_digit(body[i]) # -1
        /\ \/ Len(ds) < Len(U64MaxDigits)
           \/ Len(ds) = Len(U64MaxDigits) /\ DigitsLeq(ds, U64MaxDigits)

Ellipsis == <<".", ".", ".">>

\* The closure of .filter(..) in from_str: FALSE drops the token.
KeepToken(s) ==
    IF s = Ellipsis THEN FALSE
    ELSE IF Len(s) > 0 /\ s[Len(s)] = "."
            /\ parse_u64_is_ok(SubSeq(s, 1, Len(s) - 1))
    THEN FALSE
    ELSE TRUE

MoveTokens(tokens) == SelectSeq(tokens, KeepToken)

\* A side label that never alternates.
SideOf_alwaysWhite(i) == "White"

\* i % 2 == 0 => Side::White, with i the 0-based index after the filter
SideOf(i) == IF i % 2 = 0 THEN "White" ELSE "Black"

\* The closure of .map(..) in from_str, for the token at 0-based index i.
MapToken(i, raw_move) ==
    LET r == validate_move(SideOf(i), raw_move)
    IN  IF r.ok THEN r ELSE Err(r.err \o <<MoveNumLine(i + 1)>>)

\* A fold that keeps only the latest error instead of appending to the text.
FoldStep_keepsLatest(acc, result) ==
    IF result.ok
    THEN [acc EXCEPT !.moves = Append(@, result.val)]
    ELSE [acc EXCEPT !.errors = result.err]

\* The closure of .fold(..): push the move, or append the error's text.
FoldStep(acc, result) ==
    IF result.ok
    THEN [acc EXCEPT !.moves = Append(@, result.val)]
    ELSE [acc EXCEPT !.errors = @ \o result.err]

RECURSIVE FoldFrom(_, _, _)
FoldFrom(kept, k, acc) ==
    IF k > Len(kept) THEN acc
    ELSE FoldFrom(kept, k + 1, FoldStep(acc, MapToken(k - 1, kept[k])))

\* A from_str that returns the moves it collected whenever there are any,
\* skipping the tokens that failed.
from_str_skipsFailures(tokens) ==
    LET acc == FoldFrom(MoveTokens(tokens), 1, [moves |-> <<>>, errors |-> <<>>])
    IN  IF acc.errors = <<>> \/ acc.moves # <<>>
        THEN [tag |-> "Ok", moves |-> acc.moves, errors |-> <<>>]
        ELSE [tag |-> "Err", moves |-> <<>>, errors |-> acc.errors]

\* impl FromStr for Pgn: Ok(Self(moves)) or Err(InvalidNotationError(errors))
from_str(tokens) ==
    LET acc == FoldFrom(MoveTokens(tokens), 1, [moves |-> <<>>, errors |-> <<>>])
    IN  IF acc.errors = <<>>
        THEN [tag |-> "Ok", moves |-> acc.moves, errors |-> <<>>]
        ELSE [tag |-> "Err", moves |-> <<>>, errors |-> acc.errors]


\* ---- bounded inputs -----------------------------------------------------
\* The longest input text, in tokens
MaxTokens == 3

\* The digits of u64::MAX + 1 followed by '.'
OverflowMarker ==
    <<"1","8","4","4","6","7","4","4","0","7","3","7","0","9","5","5","1","6",
      "1","6",".">>

\* Representative tokens: coordinate moves (plain, with a piece letter, with
\* decoration, with a promotion in either case), a short SAN move, malformed
\* moves, the castling spellings, move-number markers (plain, signed, too
\* large for 64 bits, without digits) and the ellipsis.
TokenPool == {
    <<"e", "2", "e", "4">>,
    <<"N", "g", "1", "f", "3">>,
    <<"e", "4", "x", "d", "5", "+">>,
    <<"e", "7", "e", "8", "=", "Q">>,
    <<"e", "4">>,
    <<"i", "0", "e", "4", "k">>,
    <<"O", "-", "O">>,
    <<"O", "-", "O", "-", "O">>,
    <<"o", "-", "o">>,
    <<"0", "-", "0", "-", "0">>,
    <<"1", ".">>,
    <<"1", "2", ".">>,
    <<".", ".", ".">>,
    <<"a", "7", "a", "8", "b">>,
    <<"e", "2", "e", "0">>,
    <<"o", "-", "o", "-", "o">>,
    <<"0", "-", "0">>,
    <<"+", "5", ".">>,
    <<".">>,
    OverflowMarker }

\* The texts "1. e4 e5 2. Nf3 Nc6", "1. e2e4 e7e5 2. Ng1f3 Nb8c6",
\* "1. e4 e9 2. Nf3" and "e2e9", split on whitespace.
SanText == << <<"1", ".">>, <<"e", "4">>, <<"e", "5">>,
              <<"2", ".">>, <<"N", "f", "3">>, <<"N", "c", "6">> >>
CoordText == << <<"1", ".">>, <<"e", "2", "e", "4">>, <<"e", "7", "e", "5">>,
                <<"2", ".">>, <<"N", "g", "1", "f", "3">>,
                <<"N", "b", "8", "c", "6">> >>
RankText == << <<"1", ".">>, <<"e", "4">>, <<"e", "9">>,
               <<"2", ".">>, <<"N", "f", "3">> >>
Rank9Text == << <<"e", "2", "e", "9">> >>
ExampleTexts == {SanText, CoordText, RankText, Rank9Text}

PgnInputs == UNION { [1..n -> TokenPool] : n \in 0..MaxTokens } \cup ExampleTexts

\* ---- the validator as a state machine -----------------------------------
PgnInit ==
    /\ rawTokens \in PgnInputs
    /\ parsed = NoResult
    /\ EngIdle /\ HttpIdle /\ PuzIdle /\ DeltaIdle

\* let pgn = Pgn::from_str(moves)
Parse ==
    /\ parsed = NoResult
    /\ parsed' = from_str(rawTokens)
    /\ UNCHANGED <<rawTokens, engVars, httpVars, puzVars, deltaVars>>

PgnNext == Parse

SpecPgn == PgnInit /\ [][PgnNext]_vars

\* ---- what the claims speak about ----------------------------------------
\* The outcome of validating the k-th move token (1-based) on its own.
TokenResult(kept, k) == validate_move(SideOf(k - 1), kept[k])

FailingTokens(kept) == {k \in 1..Len(kept) : ~TokenResult(kept, k).ok}

\* The aggregated error text cut into its entries: each entry is the lines
\* up to and including a "move num:" line.
RECURSIVE SplitEntries(_, _)
SplitEntries(lines, cur) ==
    IF lines = <<>>
    THEN IF cur = <<>> THEN <<>> ELSE <<[num |-> 0, msg |-> cur]>>
    ELSE IF Head(lines).kind = MoveNumLine(0).kind
    THEN <<[num |-> Head(lines).num, msg |-> cur]>>
             \o SplitEntries(Tail(lines), <<>>)
    ELSE SplitEntries(Tail(lines), Append(cur, Head(lines)))

\* One entry per failing token, in input order, with its 1-based number.
RECURSIVE ExpectedEntries(_, _)
ExpectedEntries(kept, k) ==
    IF k > Len(kept) THEN <<>>
    ELSE (IF TokenResult(kept, k).ok THEN <<>>
          ELSE <<[num |-> k, msg |-> TokenResult(kept, k).err]>>)
         \o ExpectedEntries(kept, k + 1)

\* C1: Pgn::from_str is all-or-nothing. It returns Ok exactly when no move
\* token fails validation, and then with one canonical move per move token,
\* in input order; otherwise it returns Err (and no move sequence at all).
C1_AllOrNothing ==
    parsed # NoResult =>
        LET kept == MoveTokens(rawTokens)
        IN  /\ parsed.tag \in {"Ok", "Err"}
            /\ (parsed.tag = "Err") <=> (FailingTokens(kept) # {})
            /\ parsed.tag = "Err" => parsed.moves = <<>>
            /\ parsed.tag = "Ok" =>
                  /\ Len(parsed.moves) = Len(kept)
                  /\ \A k \in 1..Len(kept) :
                        parsed.moves[k] = TokenResult(kept, k).val

\* C1 witness: a text with a passing and a failing move token was rejected.
C1_Witness ==
    /\ parsed # NoResult
    /\ parsed.tag = "Err"
    /\ LET kept == MoveTokens(rawTokens)
       IN  /\ FailingTokens(kept) # {}
           /\ FailingTokens(kept) # 1..Len(kept)

\* C2: when from_str fails, the aggregated error holds exactly one entry per
\* failing move token, in input order, each tagged with the token's 1-based
\* number among the move tokens, and no entry for a token that passed.
C2_AllErrorsReported ==
    (parsed # NoResult /\ parsed.tag = "Err") =>
        SplitEntries(parsed.errors, <<>>)
            = ExpectedEntries(MoveTokens(rawTokens), 1)

\* C2 witness: two failing tokens with a passing one between them.
C2_Witness ==
    /\ parsed # NoResult
    /\ parsed.tag = "Err"
    /\ FailingTokens(MoveTokens(rawTokens)) = {1, 3}
    /\ Len(SplitEntries(parsed.errors, <<>>)) = 2


\* The four moves e2e4, e7e5, g1f3, b8c6
FourCanonicalMoves ==
    << <<"e", "2", "e", "4">>, <<"e", "7", "e", "5">>,
       <<"g", "1", "f", "3">>, <<"b", "8", "c", "6">> >>

\* C14 as stated: on "1. e4 e5 2. Nf3 Nc6" the validator returns no error
\* and the moves e2e4, e7e5, g1f3, b8c6.
C14_SanConverted ==
    (parsed # NoResult /\ rawTokens = SanText) =>
        parsed = [tag |-> "Ok", moves |-> FourCanonicalMoves, errors |-> << >>]

\* C14 amended: short-form SAN is not converted.  On "1. e4 e5 2. Nf3 Nc6"
\* the validator fails with the length message for each of the four
\* tokens; on "1. e2e4 e7e5 2. Ng1f3 Nb8c6" it returns no error and the
\* moves e2e4, e7e5, g1f3, b8c6.
C14_SanRejectedCoordAccepted ==
    /\ (parsed # NoResult /\ rawTokens = SanText) =>
          /\ parsed.tag = "Err"
          /\ SplitEntries(parsed.errors, << >>) =
                << [num |-> 1, msg |-> <<LengthErr(<<"e", "4">>)>>],
                   [num |-> 2, msg |-> <<LengthErr(<<"e", "5">>)>>],
                   [num |-> 3, msg |-> <<LengthErr(<<"f", "3">>)>>],
                   [num |-> 4, msg |-> <<LengthErr(<<"c", "6">>)>>] >>
    /\ (parsed # NoResult /\ rawTokens = CoordText) =>
          parsed = [tag |-> "Ok", moves |-> FourCanonicalMoves, errors |-> << >>]

\* "1. e4 e5 2. Nf3 Nc6" was validated and rejected.
C14_Witness ==
    /\ rawTokens = SanText
    /\ parsed # NoResult
    /\ parsed.tag = "Err"

\* C15 as stated: on "1. e4 e9 2. Nf3" the validator fails and the entry
\* for move number 2 reports the rank character 9 as an invalid rank.
C15_Rank9Reported ==
    (parsed # NoResult /\ rawTokens = RankText) =>
        /\ parsed.tag = "Err"
        /\ \E i \in DOMAIN SplitEntries(parsed.errors, << >>) :
              LET e == SplitEntries(parsed.errors, << >>)[i]
              IN  /\ e.num = 2
                  /\ \E j \in DOMAIN e.msg : e.msg[j] = RankErr("9")

\* C15 amended: on "1. e4 e9 2. Nf3" the validator fails with the length
\* message for each of the three tokens; the entry for move number 2 names
\* the token e9 and reports no invalid rank.  A 9 is a supported rank
\* digit: "e2e9" is accepted.
C15_Rank9LengthOnly ==
    /\ (parsed # NoResult /\ rawTokens = RankText) =>
          /\ parsed.tag = "Err"
          /\ SplitEntries(parsed.errors, << >>) =
                << [num |-> 1, msg |-> <<LengthErr(<<"e", "4">>)>>],
                   [num |-> 2, msg |-> <<LengthErr(<<"e", "9">>)>>],
                   [num |-> 3, msg |-> <<LengthErr(<<"f", "3">>)>>] >>
    /\ (parsed # NoResult /\ rawTokens = Rank9Text) =>
          parsed = [tag |-> "Ok", moves |-> Rank9Text, errors |-> << >>]

\* "1. e4 e9 2. Nf3" was validated and rejected.
C15_Witness ==
    /\ rawTokens = RankText
    /\ parsed # NoResult
    /\ parsed.tag = "Err"


\* The 1-based numbers of the move tokens the aggregated error has an entry
\* for
ReportedNums ==
    {SplitEntries(parsed.errors, << >>)[i].num :
        i \in DOMAIN SplitEntries(parsed.errors, << >>)}

\* The message of the entry for move token k
ReportedMsg(k) ==
    LET es == SplitEntries(parsed.errors, << >>)
    IN  es[CHOOSE i \in DOMAIN es : es[i].num = k].msg

\* C16: the k-th move token (counted from 1 after the markers are dropped)
\* is White's when k is odd and Black's when k is even; a token O-O is
\* never reported and yields e1g1 for White and e8g8 for Black, a token
\* O-O-O yields e1c1 for White and e8c8 for Black.
C16_CastlingBySide ==
    parsed # NoResult =>
        \A k \in 1..Len(MoveTokens(rawTokens)) :
            LET tok == MoveTokens(rawTokens)[k]
                white == (k % 2 = 1)
            IN  /\ tok = <<"O", "-", "O">> =>
                      /\ k \notin ReportedNums
                      /\ parsed.tag = "Ok" =>
                            parsed.moves[k] = IF white THEN <<"e", "1", "g", "1">>
                                              ELSE <<"e", "8", "g", "8">>
                /\ tok = <<"O", "-", "O", "-", "O">> =>
                      /\ k \notin ReportedNums
                      /\ parsed.tag = "Ok" =>
                            parsed.moves[k] = IF white THEN <<"e", "1", "c", "1">>
                                              ELSE <<"e", "8", "c", "8">>

\* After a dropped marker White castled long and Black castled short.
C16_Witness ==
    /\ parsed # NoResult
    /\ parsed.tag = "Ok"
    /\ rawTokens = << <<"1", ".">>, <<"O", "-", "O", "-", "O">>, <<"O", "-", "O">> >>
    /\ parsed.moves = << <<"e", "1", "c", "1">>, <<"e", "8", "g", "8">> >>

\* The lowercase and zero castling spellings
CastlingVariants ==
    { <<"o", "-", "o">>, <<"o", "-", "o", "-", "o">>,
      <<"0", "-", "0">>, <<"0", "-", "0", "-", "0">> }

\* C17: a move token o-o, o-o-o, 0-0 or 0-0-0 makes the validation fail,
\* whatever its position and side, and its entry is exactly the message
\* 'expected O-O or O-O-O, got <token>'.
C17_VariantsRejected ==
    parsed # NoResult =>
        \A k \in 1..Len(MoveTokens(rawTokens)) :
            MoveTokens(rawTokens)[k] \in CastlingVariants =>
                /\ parsed.tag = "Err"
                /\ k \in ReportedNums
                /\ ReportedMsg(k) =
                      << [kind |-> "expected O-O or O-O-O, got {str}",
                          text |-> MoveTokens(rawTokens)[k], num |-> 0] >>

\* A variant was rejected as White's token and another as Black's.
C17_Witness ==
    /\ parsed # NoResult
    /\ parsed.tag = "Err"
    /\ Len(MoveTokens(rawTokens)) = 2
    /\ MoveTokens(rawTokens)[1] = <<"0", "-", "0">>
    /\ MoveTokens(rawTokens)[2] = <<"o", "-", "o", "-", "o">>
    /\ ReportedNums = {1, 2}


\* The residual of a token as C18 describes it: one leading uppercase letter
\* removed, then every x + # = - removed.
ResidualOf(tok) ==
    LET rest == IF tok # << >> /\ tok[1] \in Range(UpperChars)
                THEN SubSeq(tok, 2, Len(tok)) ELSE tok
    IN  SelectSeq(rest, LAMBDA c : c \notin {"x", "+", "#", "=", "-"})

\* The shape C18 requires of a residual
ShapeOk(res) ==
    /\ Len(res) \in {4, 5}
    /\ res[1] \in {"a", "b", "c", "d", "e", "f", "g", "h"}
    /\ res[3] \in {"a", "b", "c", "d", "e", "f", "g", "h"}
    /\ res[2] \in {"1", "2", "3", "4", "5", "6", "7", "8", "9"}
    /\ res[4] \in {"1", "2", "3", "4", "5", "6", "7", "8", "9"}
    /\ Len(res) = 5 => res[5] \in {"q", "r", "b", "n", "Q", "R", "B", "N"}

\* C18: a move token other than O-O and O-O-O is accepted exactly when its
\* residual has length 4 or 5, files at offsets 0 and 2, rank digits 1-9 at
\* offsets 1 and 3 and, at offset 4, one of q r b n in either case; the
\* move emitted for it is the residual.
C18_ShapeDecides ==
    parsed # NoResult =>
        \A k \in 1..Len(MoveTokens(rawTokens)) :
            LET tok == MoveTokens(rawTokens)[k]
            IN  tok \notin {<<"O", "-", "O">>, <<"O", "-", "O", "-", "O">>} =>
                    /\ (k \notin ReportedNums) <=> ShapeOk(ResidualOf(tok))
                    /\ parsed.tag = "Ok" => parsed.moves[k] = ResidualOf(tok)

\* A piece move, a capture with check and a promotion were accepted.
C18_Witness ==
    /\ parsed # NoResult
    /\ parsed.tag = "Ok"
    /\ rawTokens = << <<"N", "g", "1", "f", "3">>,
                      <<"e", "4", "x", "d", "5", "+">>,
                      <<"e", "7", "e", "8", "=", "Q">> >>
    /\ parsed.moves = << <<"g", "1", "f", "3">>, <<"e", "4", "d", "5">>,
                         <<"e", "7", "e", "8", "Q">> >>


\* A pure move-number marker as C19 describes it: one or more decimal
\* digits followed by one '.'; and the ellipsis.
IsMarker(tok) ==
    \/ tok = <<".", ".", ".">>
    \/ /\ Len(tok) >= 2
       /\ tok[Len(tok)] = "."
       /\ \A i \in 1..(Len(tok) - 1) : tok[i] \in Range(DigitChars)

\* The validation of a sequence of move tokens, none of them dropped
ValidateAll(kept) ==
    LET acc == FoldFrom(kept, 1, [moves |-> << >>, errors |-> << >>])
    IN  IF acc.errors = << >>
        THEN [tag |-> "Ok", moves |-> acc.moves, errors |-> << >>]
        ELSE [tag |-> "Err", moves |-> << >>, errors |-> acc.errors]

\* C19: the result of from_str is the validation of the tokens that are
\* neither a pure move-number marker nor the ellipsis; the dropped tokens
\* take no side label and no move number, and every other token is
\* validated as a move.
C19_MarkersDropped ==
    parsed # NoResult =>
        parsed = ValidateAll(SelectSeq(rawTokens, LAMBDA t : ~IsMarker(t)))


(***************************************************************************)
(*           ENGINE SESSION  (stockfish.rs, domain/stockfish.rs)           *)
(*                                                                         *)
(* One Stockfish session driven by one caller.  The engine is an external  *)
(* process: it answers every command it receives while it runs, and it may *)
(* stop at any moment, also in the middle of an answer.  After it stopped, *)
(* its stdout reports end-of-stream once the lines already written are     *)
(* read, and a write to its stdin either is still taken by the pipe or     *)
(* fails (broken pipe).                                                    *)
(***************************************************************************)

\* Calls made on one session
MaxCalls == 2
\* Positions a call can be asked about
NumPositions == 2

Positions == 1..NumPositions
\* depth 1 in analyze_best_move, depth 5 in finalize_puzzle
Depths == {1, 5}
\* What `eval` can report: the side to move is in check, or a score
EvalAnswers == { [chk |-> TRUE, score |-> 0],
                 [chk |-> FALSE, score |-> 0],
                 [chk |-> FALSE, score |-> 1] }

\* A command written to the engine's stdin.  pos: the position the call that
\* writes it was asked about.
Cmd(text, arg, pos, call) ==
    [ev |-> "w", text |-> text, arg |-> arg, chk |-> FALSE, pos |-> pos,
     rsp |-> 0, call |-> call]

\* A line of the engine's stdout.  pos: the position the engine held when it
\* wrote the line; rsp: the index in engTrace of the command it answers.
Line(text, arg, chk, pos, rsp) ==
    [ev |-> "line", text |-> text, arg |-> arg, chk |-> chk, pos |-> pos,
     rsp |-> rsp, call |-> 0]

\* read_line returned 0 bytes
EofEvent(call) ==
    [ev |-> "eof", text |-> "", arg |-> 0, chk |-> FALSE, pos |-> 0,
     rsp |-> 0, call |-> call]

\* The engine's best move depends on the position it holds.
EngineBestMove(pos) == pos

\* What the engine prints for one command, holding position pos.
AnswerTo(c, pos, idx, v) ==
    CASE c.text = "isready" -> << Line("readyok", 0, FALSE, pos, idx) >>
      [] c.text = "eval" ->
            << Line("info", 0, FALSE, pos, idx),
               Line("", 0, FALSE, pos, idx),
               Line("Final", v.score, v.chk, pos, idx),
               Line("", 0, FALSE, pos, idx) >>
      [] c.text = "go" ->
            << Line("info", 0, FALSE, pos, idx),
               Line("bestmove", EngineBestMove(pos), FALSE, pos, idx) >>
      [] OTHER -> << >>

PosAfterCmd(c, pos) == IF c.text = "position" THEN c.arg ELSE pos

\* The answers to the commands cmds[k..], the first one at index base + k of
\* engTrace.
RECURSIVE Answers(_, _, _, _, _)
Answers(cmds, k, pos, base, v) ==
    IF k > Len(cmds) THEN << >>
    ELSE AnswerTo(cmds[k], PosAfterCmd(cmds[k], pos), base + k, v)
            \o Answers(cmds, k + 1, PosAfterCmd(cmds[k], pos), base, v)

RECURSIVE PosAfter(_, _, _)
PosAfter(cmds, k, pos) ==
    IF k > Len(cmds) THEN pos
    ELSE PosAfter(cmds, k + 1, PosAfterCmd(cmds[k], pos))

Panic(why) == [tag |-> "panic", why |-> why]

\* trimmed == marker || trimmed.contains(marker)
LineHasMarker(line, marker) == line.text = marker

FirstMarker(out, marker) ==
    IF \E i \in DOMAIN out : LineHasMarker(out[i], marker)
    THEN CHOOSE i \in DOMAIN out :
            /\ LineHasMarker(out[i], marker)
            /\ \A j \in 1..(i - 1) : ~LineHasMarker(out[j], marker)
    ELSE 0

\* Stockfish::read_until on the unread lines `out` of a stream that has
\* ended (or will end) after them: it always returns Ok(buffer).  found: the
\* loop left at the marker; n: lines consumed; buffer: the last line read,
\* which is empty when the loop left at end-of-stream.
read_until(out, marker) ==
    LET i == FirstMarker(out, marker)
    IN  IF i > 0
        THEN [ok |-> TRUE, found |-> TRUE, n |-> i, buffer |-> out[i]]
        ELSE [ok |-> TRUE, found |-> FALSE, n |-> Len(out),
              buffer |-> Line("", 0, FALSE, 0, 0)]

\* read_line blocks while the stream is open and holds no further line
ReadReturns(marker) == FirstMarker(engOut, marker) > 0 \/ ~engAlive

\* The trace of one read_until: the lines read, then the end-of-stream.
ReadEvents(r, call) ==
    [k \in 1..r.n |-> [engOut[k] EXCEPT !.ev = "r", !.call = call]]
        \o (IF r.found THEN << >> ELSE << EofEvent(call) >>)

ThisCall == callsDone + 1

\* Stockfish::write (writeln! + flush) of the commands cmds, followed by
\* `.expect(..)`: the caller goes on at okPc, or panics when the write fails.
SessionWrite(cmds, okPc, why) ==
    \/ /\ engAlive
       /\ \E v \in EvalAnswers :
             LET resp == Answers(cmds, 1, engPos, Len(engTrace), v)
             IN  \E n \in 0..Len(resp) :
                    /\ engOut' = engOut \o SubSeq(resp, 1, n)
                    /\ engAlive' = (n = Len(resp))
       /\ engPos' = PosAfter(cmds, 1, engPos)
       /\ engTrace' = engTrace \o cmds
       /\ callPc' = okPc
       /\ UNCHANGED callRet
    \/ /\ ~engAlive
       /\ engTrace' = engTrace \o cmds
       /\ callPc' = okPc
       /\ UNCHANGED <<engAlive, engPos, engOut, callRet>>
    \/ /\ ~engAlive
       /\ callPc' = "panicked"
       /\ callRet' = Panic(why)
       /\ UNCHANGED <<engAlive, engPos, engOut, engTrace>>

EngInit ==
    /\ EngIdle
    /\ PgnIdle /\ HttpIdle /\ PuzIdle /\ DeltaIdle

\* eval_pos(fen, stockfish) / best_move_for_pos(fen, depth, stockfish) begins
StartCall ==
    /\ callPc = "idle"
    /\ callsDone < MaxCalls
    /\ \E kind \in {"eval", "best"}, pos \in Positions, depth \in Depths :
          /\ callKind' = kind
          /\ callPos' = pos
          /\ callDepth' = IF kind = "best" THEN depth ELSE 0
    /\ callPc' = "new_game"
    /\ UNCHANGED <<engAlive, engPos, engOut, engTrace, callRet, callsDone>>
    /\ UNCHANGED <<pgnVars, httpVars, puzVars, deltaVars>>

\* new_game: writeln!("ucinewgame"), writeln!("isready"), flush
NewGameWrite ==
    /\ callPc = "new_game"
    /\ SessionWrite(<< Cmd("ucinewgame", 0, callPos, ThisCall),
                       Cmd("isready", 0, callPos, ThisCall) >>,
                    "read_readyok", "can't start ucinewgame")
    /\ UNCHANGED <<callKind, callPos, callDepth, callsDone>>
    /\ UNCHANGED <<pgnVars, httpVars, puzVars, deltaVars>>

\* A new_game that returns without reading up to readyok.
NewGameRead_noBarrier ==
    /\ callPc = "read_readyok"
    /\ callPc' = "position"
    /\ UNCHANGED <<engAlive, engPos, engOut, engTrace, callRet, callKind,
                   callPos, callDepth, callsDone>>
    /\ UNCHANGED <<pgnVars, httpVars, puzVars, deltaVars>>

\* new_game: self.read_until("readyok")?; Ok(())
NewGameRead ==
    /\ callPc = "read_readyok"
    /\ ReadReturns("readyok")
    /\ LET r == read_until(engOut, "readyok")
       IN  /\ engTrace' = engTrace \o ReadEvents(r, ThisCall)
           /\ engOut' = SubSeq(engOut, r.n + 1, Len(engOut))
           /\ callPc' = IF r.ok THEN "position" ELSE "panicked"
           /\ callRet' = IF r.ok THEN callRet
                         ELSE Panic("can't start ucinewgame")
    /\ UNCHANGED <<engAlive, engPos, callKind, callPos, callDepth, callsDone>>
    /\ UNCHANGED <<pgnVars, httpVars, puzVars, deltaVars>>

\* stockfish.write(&position_cmd).expect(..)
WritePosition ==
    /\ callPc = "position"
    /\ SessionWrite(<< Cmd("position", callPos, callPos, ThisCall) >>,
                    "command", "can't write to stockfish")
    /\ UNCHANGED <<callKind, callPos, callDepth, callsDone>>
    /\ UNCHANGED <<pgnVars, httpVars, puzVars, deltaVars>>

\* stockfish.write("eval") / stockfish.write(&depth_cmd), with .expect(..)
WriteCommand ==
    /\ callPc = "command"
    /\ SessionWrite(<< IF callKind = "eval"
                       THEN Cmd("eval", 0, callPos, ThisCall)
                       ELSE Cmd("go", callDepth, callPos, ThisCall) >>,
                    "read_sentinel", "can't write to stockfish")
    /\ UNCHANGED <<callKind, callPos, callDepth, callsDone>>
    /\ UNCHANGED <<pgnVars, httpVars, puzVars, deltaVars>>

Sentinel(kind) == IF kind = "eval" THEN "Final" ELSE "bestmove"

\* What the caller makes of the buffer read_until returned:
\*   best: output.split_whitespace().nth(1).unwrap()
\*   eval: output.contains("in check"), else
\*         output.split_whitespace().nth(2).unwrap().parse::<f32>()
\* An empty buffer has no second or third field: unwrap panics.
ParseOutput(kind, buffer) ==
    IF buffer.text = ""
    THEN Panic("unwrap on None")
    ELSE IF kind = "eval"
    THEN [tag |-> "Ok", kind |-> "eval", chk |-> buffer.chk,
          arg |-> IF buffer.chk THEN 0 ELSE buffer.arg, rsp |-> buffer.rsp]
    ELSE [tag |-> "Ok", kind |-> "best", chk |-> FALSE,
          arg |-> buffer.arg, rsp |-> buffer.rsp]

\* let output = stockfish.read_until(marker).unwrap(); then the parse
ReadSentinel ==
    /\ callPc = "read_sentinel"
    /\ ReadReturns(Sentinel(callKind))
    /\ LET r == read_until(engOut, Sentinel(callKind))
           ret == ParseOutput(callKind, r.buffer)
       IN  /\ engTrace' = engTrace \o ReadEvents(r, ThisCall)
           /\ engOut' = SubSeq(engOut, r.n + 1, Len(engOut))
           /\ callRet' = ret
           /\ callPc' = IF ret.tag = "Ok" THEN "idle" ELSE "panicked"
           /\ callsDone' = IF ret.tag = "Ok" THEN callsDone + 1 ELSE callsDone
    /\ UNCHANGED <<engAlive, engPos, callKind, callPos, callDepth>>
    /\ UNCHANGED <<pgnVars, httpVars, puzVars, deltaVars>>

\* The engine process stops; what it wrote so far stays readable.
EngineStops ==
    /\ engAlive
    /\ callPc # "panicked"
    /\ engAlive' = FALSE
    /\ UNCHANGED <<engPos, engOut, engTrace, callPc, callKind, callPos,
                   callDepth, callRet, callsDone>>
    /\ UNCHANGED <<pgnVars, httpVars, puzVars, deltaVars>>

\* An event of the teardown: the attempt to write quit (ev "w" when the
\* write succeeded, "wfail" when it failed), the wait for the process (text
\* "Ok" or "Err") and the line logged.
DropEvent(ev, text) ==
    [ev |-> ev, text |-> text, arg |-> 0, chk |-> FALSE, pos |-> 0,
     rsp |-> 0, call |-> 0]

\* impl Drop for Stockfish, on a normal drop (no call in progress) or while
\* a panic unwinds:
\*   let _ = self.write("quit"); let _ = self.process.wait();
\*   eprintln!("stockfish terminated successfully")
\* A running engine takes the command and exits; the pipe of a stopped one
\* takes the bytes or the write fails.  The wait returns Ok or Err.
DropSession ==
    /\ callPc \in {"idle", "panicked"}
    /\ \E wrote \in (IF engAlive THEN {TRUE} ELSE BOOLEAN), waited \in BOOLEAN :
          engTrace' = engTrace \o
              << DropEvent(IF wrote THEN "w" ELSE "wfail", "quit"),
                 DropEvent("wait", IF waited THEN "Ok" ELSE "Err"),
                 DropEvent("log", "stockfish terminated successfully") >>
    /\ engAlive' = FALSE
    /\ callPc' = "dropped"
    /\ UNCHANGED <<engPos, engOut, callKind, callPos, callDepth, callRet,
                   callsDone>>
    /\ UNCHANGED <<pgnVars, httpVars, puzVars, deltaVars>>

EngNext ==
    \/ StartCall
    \/ NewGameWrite
    \/ NewGameRead
    \/ WritePosition
    \/ WriteCommand
    \/ ReadSentinel
    \/ EngineStops
    \/ DropSession

SpecEngine == EngInit /\ [][EngNext]_vars

\* ---- what the claims speak about ----------------------------------------
\* The writes and reads of call c, in program order.
CallEvents(c) == SelectSeq(engTrace, LAMBDA e : e.call = c)

IsWrite(e, text) == e.ev = "w" /\ e.text = text
IsRead(e, text) == e.ev = "r" /\ e.text = text

\* The commands call c has written so far.
CallWrites(c) == SelectSeq(CallEvents(c), LAMBDA e : e.ev = "w")

\* Call c has read a line holding `text` after writing isready.
ReadAfterIsready(c, text) ==
    LET E == CallEvents(c)
    IN  \E b, r \in DOMAIN E :
            /\ b < r
            /\ IsWrite(E[b], "isready")
            /\ IsRead(E[r], text)

\* Call c has read the sentinel line after writing its eval / go command.
ReadAfterCommand(c, text) ==
    LET E == CallEvents(c)
    IN  \E g, r \in DOMAIN E :
            /\ g < r
            /\ E[g].ev = "w" /\ E[g].text \in {"eval", "go"}
            /\ IsRead(E[r], text)

\* C4: in every evaluate and bestMove call the commands reach the engine in
\* the order ucinewgame, isready, (readyok is read), position <queried
\* position>, eval or go; so the position command is written only after
\* readyok was read, and no eval or go is written without the position
\* command of the queried position after the latest ucinewgame.
C4_CommandOrder ==
    \A c \in 1..ThisCall :
        LET W == CallWrites(c)
        IN  /\ Len(W) <= 4
            /\ Len(W) >= 1 => W[1].text = "ucinewgame"
            /\ Len(W) >= 2 => W[2].text = "isready"
            /\ Len(W) >= 3 =>
                  /\ W[3].text = "position" /\ W[3].arg = W[3].pos
                  /\ ReadAfterIsready(c, "readyok")
            /\ Len(W) >= 4 => W[4].text \in {"eval", "go"}

\* C5: an operation that met the end of the engine's output before its
\* sentinel line reports a failure.  new_game has returned Ok only if readyok
\* was read, and a call has returned a value only if its sentinel was read.
C5_EofIsFailure ==
    /\ callPc \in {"position", "command", "read_sentinel"} =>
          ReadAfterIsready(ThisCall, "readyok")
    /\ \A c \in 1..callsDone :
          /\ ReadAfterIsready(c, "readyok")
          /\ ReadAfterCommand(c, "Final") \/ ReadAfterCommand(c, "bestmove")


\* C22: when the session is torn down, quit is written before the wait,
\* the teardown completes whatever the write and the wait return, and a
\* failed write or wait is not logged as a successful termination.
C22_TeardownSurfaced ==
    callPc = "dropped" =>
        \E q, w, l \in DOMAIN engTrace :
            /\ q < w /\ w < l
            /\ engTrace[q].ev \in {"w", "wfail"} /\ engTrace[q].text = "quit"
            /\ engTrace[w].ev = "wait"
            /\ engTrace[l].ev = "log"
            /\ (engTrace[q].ev = "wfail" \/ engTrace[w].text = "Err") =>
                  engTrace[l].text # "stockfish terminated successfully"


\* The call that wrote the command a line answers (0: no such command)
CallAnswered(line) ==
    IF line.rsp \in DOMAIN engTrace /\ engTrace[line.rsp].ev = "w"
    THEN engTrace[line.rsp].call
    ELSE 0

\* C27: over any sequence of evaluate and bestMove calls on one session,
\* every sentinel line a call reads, and the value a call returns, is the
\* engine's answer to the eval / go command of that same call; once the
\* readyok barrier of a call has been passed, no output of an earlier call
\* is left unread.
C27_AnswerIsOwn ==
    /\ \A i \in DOMAIN engTrace :
          (engTrace[i].ev = "r" /\ engTrace[i].text \in {"Final", "bestmove"}) =>
              /\ CallAnswered(engTrace[i]) = engTrace[i].call
              /\ engTrace[engTrace[i].rsp].text \in {"eval", "go"}
              /\ engTrace[i].rsp < i
              /\ engTrace[i].text = Sentinel(IF engTrace[engTrace[i].rsp].text = "eval"
                                              THEN "eval" ELSE "best")
    /\ (callPc = "idle" /\ callsDone >= 1) =>
          /\ callRet.tag = "Ok"
          /\ CallAnswered(callRet) = callsDone
          /\ engTrace[callRet.rsp].text \in {"eval", "go"}
    /\ callPc \in {"position", "command", "read_sentinel"} =>
          \A k \in DOMAIN engOut : CallAnswered(engOut[k]) = ThisCall

\* Two calls have returned; the second one read, before its readyok, a line
\* the engine had written in answer to the first one's command.
C27_Witness ==
    /\ callPc = "idle"
    /\ callsDone = 2
    /\ \E i \in DOMAIN engTrace :
          /\ engTrace[i].ev = "r"
          /\ engTrace[i].call = 2
          /\ CallAnswered(engTrace[i]) = 1

(***************************************************************************)
(*            HTTP SERVICE  (http/handler.rs, http/app.rs)                 *)
(*                                                                         *)
(* Several create_puzzle handlers run concurrently.  They share one        *)
(* AppState, whose stockfish field is an Arc<Mutex<Stockfish>> built once  *)
(* by app(); nothing replaces the Stockfish inside the mutex afterwards.   *)
(* A run of domain::puzzle::generate_puzzle_by_position_analysis makes     *)
(* three engine exchanges (eval, best move, eval) per analysed position.   *)
(***************************************************************************)

\* Concurrent requests
NumRequests == 3

Requests == 1..NumRequests

\* The "PGN" field of the request bodies: a game of four moves, a game too
\* short for a scan window, and a text the validator rejects.
GoodBody == << <<"e", "2", "e", "4">>, <<"e", "7", "e", "5">>,
               <<"N", "g", "1", "f", "3">>, <<"N", "b", "8", "c", "6">> >>
ShortBody == << <<"e", "2", "e", "4">>, <<"e", "7", "e", "5">>,
                <<"N", "g", "1", "f", "3">> >>
BadBody == << <<"e", "4">> >>
\* The empty text, and a text of move-number markers only.
EmptyBody == << >>
MarkerBody == << <<"1", ".">>, <<".", ".", ".">> >>
HttpBodies == {GoodBody, ShortBody, BadBody, MarkerBody}

\* rand_range_of_moves (domain/puzzle.rs): from = len / 3 and the values
\* random_range(from + 1..len - 1) can return; the empty set when the range
\* is empty (random_range panics).
domain_rand_from(len) == len \div 3
domain_rand_to(len) == (domain_rand_from(len) + 1)..(len - 2)

\* moves.len() - 1 on an empty game overflows usize: a debug build panics,
\* a release build wraps to usize::MAX, and the draw from 1..usize::MAX then
\* returns a value that is represented here by 1..MaxWrappedTo.
MaxWrappedTo == 1
domain_overflow_to == 1..MaxWrappedTo

\* analyze_pos: eval_pos_moves, best_move_for_pos_moves, eval_pos_moves
ExchangesPerPosition == 3

\* A mutex that lets a caller in while another one holds the guard.
LockAvailable_always == TRUE

\* Mutex::lock blocks while another thread holds the guard.
LockAvailable == mutexHolder = NoOne

LogEntry(r, what) == [who |-> r, what |-> what, holder |-> mutexHolder]

HttpInit ==
    /\ reqBody \in [Requests -> HttpBodies]
    /\ reqPc = [r \in Requests |-> "start"]
    /\ reqLeft = [r \in Requests |-> 0]
    /\ mutexHolder = NoOne
    /\ mutexPoisoned = FALSE
    /\ inFlight = {}
    /\ engineLog = << >>
    /\ engineFailed = FALSE
    /\ PgnIdle /\ EngIdle /\ PuzIdle /\ DeltaIdle

\* validate_headers(..)? or extract_payload(..)? returns the error
Reject(r) ==
    /\ reqPc[r] = "start"
    /\ reqPc' = [reqPc EXCEPT ![r] = "rejected"]
    /\ UNCHANGED <<reqBody, reqLeft, mutexHolder, mutexPoisoned, inFlight,
                   engineLog, engineFailed>>
    /\ UNCHANGED <<pgnVars, engVars, puzVars, deltaVars>>

\* headers and payload are fine: the handler goes on to state.stockfish.lock()
Accept(r) ==
    /\ reqPc[r] = "start"
    /\ reqPc' = [reqPc EXCEPT ![r] = "locking"]
    /\ UNCHANGED <<reqBody, reqLeft, mutexHolder, mutexPoisoned, inFlight,
                   engineLog, engineFailed>>
    /\ UNCHANGED <<pgnVars, engVars, puzVars, deltaVars>>

\* state.stockfish.lock().unwrap(): on a poisoned mutex lock() returns Err
\* and unwrap panics (the guard inside the error is dropped again).
Lock(r) ==
    /\ reqPc[r] = "locking"
    /\ LockAvailable
    /\ IF mutexPoisoned
       THEN /\ reqPc' = [reqPc EXCEPT ![r] = "lock_panicked"]
            /\ UNCHANGED mutexHolder
       ELSE /\ reqPc' = [reqPc EXCEPT ![r] = "validating"]
            /\ mutexHolder' = r
    /\ UNCHANGED <<reqBody, reqLeft, mutexPoisoned, inFlight, engineLog,
                   engineFailed>>
    /\ UNCHANGED <<pgnVars, engVars, puzVars, deltaVars>>

\* The guard is dropped at the end of the statement that called lock(); a
\* drop during a panic poisons the mutex.
Release(r, panicking) ==
    /\ mutexHolder' = IF mutexHolder = r THEN NoOne ELSE mutexHolder
    /\ mutexPoisoned' = (mutexPoisoned \/ panicking)

\* A generator that goes on to the range step with whatever from_str
\* returned.
Validate_noEarlyReturn(r) ==
    /\ reqPc[r] = "validating"
    /\ LET pgn == from_str(reqBody[r])
           len == Len(pgn.moves)
       IN  IF len = 0
           THEN \/ /\ reqPc' = [reqPc EXCEPT ![r] = "range_panicked"]
                   /\ Release(r, TRUE)
                   /\ UNCHANGED reqLeft
                \/ /\ \E to_ \in domain_overflow_to :
                         reqLeft' = [reqLeft EXCEPT ![r] =
                             ExchangesPerPosition * (to_ + 1)]
                   /\ reqPc' = [reqPc EXCEPT ![r] = "running"]
                   /\ UNCHANGED <<mutexHolder, mutexPoisoned>>
           ELSE IF domain_rand_to(len) = {}
           THEN /\ reqPc' = [reqPc EXCEPT ![r] = "range_panicked"]
                /\ Release(r, TRUE)
                /\ UNCHANGED reqLeft
           ELSE /\ \E to_ \in domain_rand_to(len) :
                      reqLeft' = [reqLeft EXCEPT ![r] =
                          ExchangesPerPosition * (to_ - domain_rand_from(len) + 1)]
                /\ reqPc' = [reqPc EXCEPT ![r] = "running"]
                /\ UNCHANGED <<mutexHolder, mutexPoisoned>>
    /\ UNCHANGED <<reqBody, inFlight, engineLog, engineFailed>>
    /\ UNCHANGED <<pgnVars, engVars, puzVars, deltaVars>>

\* generate_puzzle_by_position_analysis up to its first engine call:
\* Pgn::from_str(moves)?, then rand_range_of_moves(&pgn)
Validate(r) ==
    /\ reqPc[r] = "validating"
    /\ LET pgn == from_str(reqBody[r])
           len == Len(pgn.moves)
       IN  IF pgn.tag = "Err"
           THEN /\ reqPc' = [reqPc EXCEPT ![r] = "bad_request"]
                /\ Release(r, FALSE)
                /\ UNCHANGED reqLeft
           ELSE IF len = 0
           THEN \/ /\ reqPc' = [reqPc EXCEPT ![r] = "range_panicked"]
                   /\ Release(r, TRUE)
                   /\ UNCHANGED reqLeft
                \/ /\ \E to_ \in domain_overflow_to :
                         reqLeft' = [reqLeft EXCEPT ![r] =
                             ExchangesPerPosition * (to_ + 1)]
                   /\ reqPc' = [reqPc EXCEPT ![r] = "running"]
                   /\ UNCHANGED <<mutexHolder, mutexPoisoned>>
           ELSE IF domain_rand_to(len) = {}
           THEN /\ reqPc' = [reqPc EXCEPT ![r] = "range_panicked"]
                /\ Release(r, TRUE)
                /\ UNCHANGED reqLeft
           ELSE /\ \E to_ \in domain_rand_to(len) :
                      reqLeft' = [reqLeft EXCEPT ![r] =
                          ExchangesPerPosition * (to_ - domain_rand_from(len) + 1)]
                /\ reqPc' = [reqPc EXCEPT ![r] = "running"]
                /\ UNCHANGED <<mutexHolder, mutexPoisoned>>
    /\ UNCHANGED <<reqBody, inFlight, engineLog, engineFailed>>
    /\ UNCHANGED <<pgnVars, engVars, puzVars, deltaVars>>

\* eval_pos_moves / best_move_for_pos_moves: new_game and the two writes
Send(r) ==
    /\ reqPc[r] = "running"
    /\ reqLeft[r] > 0
    /\ r \notin inFlight
    /\ inFlight' = inFlight \cup {r}
    /\ engineLog' = Append(engineLog, LogEntry(r, "cmd"))
    /\ UNCHANGED <<reqBody, reqPc, reqLeft, mutexHolder, mutexPoisoned,
                   engineFailed>>
    /\ UNCHANGED <<pgnVars, engVars, puzVars, deltaVars>>

\* eval_pos_moves / best_move_for_pos_moves: read_until and the parse
Receive(r) ==
    /\ reqPc[r] = "running"
    /\ r \in inFlight
    /\ inFlight' = inFlight \ {r}
    /\ engineLog' = Append(engineLog, LogEntry(r, "read"))
    /\ reqLeft' = [reqLeft EXCEPT ![r] = @ - 1]
    /\ UNCHANGED <<reqBody, reqPc, mutexHolder, mutexPoisoned, engineFailed>>
    /\ UNCHANGED <<pgnVars, engVars, puzVars, deltaVars>>

\* The engine fails during the run: expect / unwrap panics inside
\* eval_pos_moves or best_move_for_pos_moves, the handler unwinds.
EngineFailure(r) ==
    /\ reqPc[r] = "running"
    /\ reqLeft[r] > 0
    /\ reqPc' = [reqPc EXCEPT ![r] = "engine_panicked"]
    /\ inFlight' = inFlight \ {r}
    /\ engineFailed' = TRUE
    /\ Release(r, TRUE)
    /\ UNCHANGED <<reqBody, reqLeft, engineLog>>
    /\ UNCHANGED <<pgnVars, engVars, puzVars, deltaVars>>

\* The run returns its Puzzle (or the final-stage error); the handler
\* answers and the guard is dropped.
Finish(r) ==
    /\ reqPc[r] = "running"
    /\ reqLeft[r] = 0
    /\ r \notin inFlight
    /\ reqPc' = [reqPc EXCEPT ![r] = "done"]
    /\ Release(r, FALSE)
    /\ UNCHANGED <<reqBody, reqLeft, inFlight, engineLog, engineFailed>>
    /\ UNCHANGED <<pgnVars, engVars, puzVars, deltaVars>>

HttpNext ==
    \E r \in Requests :
        \/ Reject(r)
        \/ Accept(r)
        \/ Lock(r)
        \/ Validate(r)
        \/ Send(r)
        \/ Receive(r)
        \/ EngineFailure(r)
        \/ Finish(r)

SpecHttp == HttpInit /\ [][HttpNext]_vars

\* ---- what the claims speak about ----------------------------------------
\* Once the log moves on to another request, the earlier one never returns.
RunsDoNotInterleave ==
    \A i \in 1..(Len(engineLog) - 1) :
        engineLog[i].who # engineLog[i + 1].who =>
            \A j \in (i + 1)..Len(engineLog) :
                engineLog[j].who # engineLog[i].who

\* C3: the session lock is taken before the first engine command of a run
\* and held until after its last read: every command and read is made by the
\* lock holder, runs never interleave on the engine, and at most one
\* exchange is in flight.
C3_Serialized ==
    /\ Cardinality(inFlight) <= 1
    /\ \A r \in inFlight : mutexHolder = r
    /\ \A i \in DOMAIN engineLog : engineLog[i].holder = engineLog[i].who
    /\ RunsDoNotInterleave

\* C3 witness: one request has an exchange in flight while another waits
\* for the lock, after an earlier request finished its run on the engine.
C3_Witness ==
    \E r1, r2, r3 \in Requests :
        /\ r1 \in inFlight
        /\ reqPc[r2] = "locking"
        /\ reqPc[r3] = "done"
        /\ \E i \in DOMAIN engineLog : engineLog[i].who = r3

\* The handler of request r has left generate_puzzle_by_position_analysis'
\* validation and range step.
PastRange(r) ==
    reqPc[r] \in {"bad_request", "range_panicked", "running",
                  "engine_panicked", "done"}

\* C13: a text without move tokens validates to the empty sequence, and the
\* generator answers every validated sequence of fewer than 4 moves with an
\* error: it neither panics in the range step nor starts a scan.
C13_ShortGamesRejected ==
    /\ from_str(EmptyBody) = [tag |-> "Ok", moves |-> << >>, errors |-> << >>]
    /\ from_str(MarkerBody) = from_str(EmptyBody)
    /\ \A r \in Requests :
          (/\ PastRange(r)
           /\ from_str(reqBody[r]).tag = "Ok"
           /\ Len(from_str(reqBody[r]).moves) < 4)
              => reqPc[r] = "bad_request"

\* C24: a request whose text fails validation is answered with the
\* validation error without any engine command or read of its own: it
\* never has an exchange in flight and never enters the scan.
C24_RejectedLeavesEngine ==
    \A r \in Requests :
        from_str(reqBody[r]).tag = "Err" =>
            /\ \A i \in DOMAIN engineLog : engineLog[i].who # r
            /\ r \notin inFlight
            /\ reqPc[r] \notin {"running", "engine_panicked", "done",
                                "range_panicked"}
            /\ PastRange(r) => reqPc[r] = "bad_request"

\* A request was answered with the validation error after another request
\* had used the engine.
C24_Witness ==
    \E r \in Requests :
        /\ reqPc[r] = "bad_request"
        /\ from_str(reqBody[r]).tag = "Err"
        /\ engineLog # << >>

\* C6: an engine failure aborts only the request it happened in; a later
\* request can still take the session lock.
C6_LaterRequestsServed ==
    engineFailed => \A r \in Requests : reqPc[r] # "lock_panicked"


(***************************************************************************)
(*                     PUZZLE SELECTOR  (puzzle.rs)                        *)
(*                                                                         *)
(* The board oracle (shakmaty) is outside the repository.  A board is      *)
(* abstracted to a piece placement and the number of half-moves played; a  *)
(* move is legal on exactly the board it was made for.  The FEN of a board *)
(* holds the placement, the side to move and the full-move number.  The    *)
(* engine is taken to answer a best-move request with a move that is legal *)
(* in the position it was asked about, and an evaluation request with any  *)
(* evaluation; it may also fail, which panics the caller.                  *)
(***************************************************************************)

\* The longest game, in half-moves
MaxGameLen == 7
\* Distinct piece placements
NumPlacements == 2

Levels == {"Easy", "Medium", "Hard"}

\* A mis-numbered level table.
as_number_hardAsMedium(l) ==
    CASE l = "Easy" -> 1 [] l = "Medium" -> 2 [] l = "Hard" -> 2

\* PuzzleLevel::as_number
as_number(l) ==
    CASE l = "Easy" -> 1 [] l = "Medium" -> 2 [] l = "Hard" -> 3

\* Chess::default()
StartBoard == [placement |-> 0, ply |-> 0]

\* Position::turn
Turn(b) == IF b.ply % 2 = 0 THEN "White" ELSE "Black"

\* Fen::from_position(board, EnPassantMode::Legal).to_string()
Fen(b) == [placement |-> b.placement, turn |-> Turn(b),
           fullmoves |-> b.ply \div 2 + 1]

\* The board the engine sets up from "position fen <fen>"
BoardOfFen(f) ==
    [placement |-> f.placement,
     ply |-> 2 * (f.fullmoves - 1) + (IF f.turn = "Black" THEN 1 ELSE 0)]

\* The move the engine answers for the position fen: legal there.
BestMoveFor(f) ==
    [src |-> BoardOfFen(f), dst |-> (f.placement + 1) % NumPlacements]

\* uci.to_move(&board) and board.play(&mov): Err when the move is not legal
Play(b, mv) ==
    IF mv.src = b
    THEN [ok |-> TRUE, board |-> [placement |-> mv.dst, ply |-> b.ply + 1]]
    ELSE [ok |-> FALSE, board |-> b]

\* prepare_board(moves, board): ok = FALSE stands for its panic
RECURSIVE prepare_board(_, _)
prepare_board(moves, b) ==
    IF moves = << >> THEN [ok |-> TRUE, board |-> b]
    ELSE IF Play(b, Head(moves)).ok
    THEN prepare_board(Tail(moves), Play(b, Head(moves)).board)
    ELSE [ok |-> FALSE, board |-> b]

\* The games: legal from the start position by construction (pgn::validate
\* replayed them).  In game `pat` the placement after k half-moves is
\* (k * pat) % NumPlacements, so placements repeat within a game.
GameBoard(pat, k) == [placement |-> (k * pat) % NumPlacements, ply |-> k]
GameMove(pat, k) ==
    [src |-> GameBoard(pat, k - 1), dst |-> GameBoard(pat, k).placement]
GamesUpTo(n) ==
    { [k \in 1..len |-> GameMove(pat, k)] :
        len \in 0..n, pat \in 0..(NumPlacements - 1) }
Games == GamesUpTo(MaxGameLen)

\* Evaluation::Check, Evaluation::Eval(f32)
Check == [chk |-> TRUE, score |-> 0]
Eval(x) == [chk |-> FALSE, score |-> x]
PuzzleEvals == {Check, Eval(0), Eval(1)}

Abs(x) == IF x < 0 THEN -x ELSE x

\* f32 deltas: a finite value, or f32::INFINITY
Finite(x) == [inf |-> FALSE, v |-> x]
Infinity == [inf |-> TRUE, v |-> 0]

\* A delta that keeps the sign of the difference.
compute_delta_signed(pos_eval, best_move_eval) ==
    IF ~pos_eval.chk /\ ~best_move_eval.chk
    THEN Finite(pos_eval.score - best_move_eval.score)
    ELSE IF ~best_move_eval.chk
    THEN Finite(Abs(best_move_eval.score))
    ELSE Infinity

compute_delta(pos_eval, best_move_eval) ==
    IF ~pos_eval.chk /\ ~best_move_eval.chk
    THEN Finite(Abs(pos_eval.score - best_move_eval.score))
    ELSE IF ~best_move_eval.chk
    THEN Finite(Abs(best_move_eval.score))
    ELSE Infinity

\* f32::total_cmp on deltas
total_cmp(a, b) ==
    IF a.inf /\ b.inf THEN "Equal"
    ELSE IF a.inf THEN "Greater"
    ELSE IF b.inf THEN "Less"
    ELSE IF a.v < b.v THEN "Less"
    ELSE IF a.v > b.v THEN "Greater"
    ELSE "Equal"

\* A max_by that keeps the first of several equal maxima.
RECURSIVE max_by_keepsFirst(_, _)
max_by_keepsFirst(acc, rest) ==
    IF rest = << >> THEN acc
    ELSE max_by_keepsFirst(
             IF total_cmp(acc.delta, Head(rest).delta) = "Less"
             THEN Head(rest) ELSE acc,
             Tail(rest))

\* Iterator::max_by(|a, b| a.delta.total_cmp(&b.delta)) after the first
\* element: the fold keeps acc only when it compares Greater.
RECURSIVE max_by(_, _)
max_by(acc, rest) ==
    IF rest = << >> THEN acc
    ELSE max_by(
             IF total_cmp(acc.delta, Head(rest).delta) = "Greater"
             THEN acc ELSE Head(rest),
             Tail(rest))

\* A selection that forgets the side filter.
highest_delta_position_anySide(cands, side) ==
    IF cands = << >> THEN Panic("never empty")
    ELSE max_by(Head(cands), Tail(cands))

\* highest_delta_position_for_side: filter, max_by, expect("never empty")
highest_delta_position_for_side(cands, side) ==
    LET same == SelectSeq(cands, LAMBDA c : c.side_to_move = side)
    IN  IF same = << >> THEN Panic("never empty")
        ELSE max_by(Head(same), Tail(same))

\* fen_sequence of prepare_result_notation: the FEN after each move
FenAfter(moves, k) == Fen(prepare_board(SubSeq(moves, 1, k), StartBoard).board)

\* A prefix search that compares the piece placement only.
prepare_result_notation_byPlacement(moves, cand) ==
    LET hits == {k \in 1..Len(moves) :
                    FenAfter(moves, k).placement = cand.original_pos.fen.placement}
    IN  IF hits = {} THEN moves
        ELSE SubSeq(moves, 1, CHOOSE k \in hits : \A h \in hits : k <= h)

\* prepare_result_notation: the moves up to and including the first one
\* whose FEN equals the candidate's, or all moves when none does
prepare_result_notation(moves, cand) ==
    LET hits == {k \in 1..Len(moves) : FenAfter(moves, k) = cand.original_pos.fen}
    IN  IF hits = {} THEN moves
        ELSE SubSeq(moves, 1, CHOOSE k \in hits : \A h \in hits : k <= h)

\* rand_range_of_moves: from, and the values random_range(from + 1..len - 1)
\* can return (none: the range is empty and random_range panics; for an
\* empty game len - 1 overflows, which panics in a debug build and in a
\* release build makes the scan index past the end of moves, which panics)
rand_from(len) == len \div 3
\* A range that starts at from instead of from + 1.
rand_to_fromIncluded(len) == rand_from(len)..(len - 2)

rand_to(len) == (rand_from(len) + 1)..(len - 2)

\* A finalize_puzzle that asks for the position of the prefix every time.
FinalizeFen_stale(moves, notation_) ==
    Fen(prepare_board(moves, StartBoard).board)

\* finalize_puzzle: the FEN of the board rebuilt from the whole notation
FinalizeFen(moves, notation_) ==
    Fen(prepare_board(notation_, StartBoard).board)

\* A start position taken from the last move of the prefix.
start_pos_lastMove(moves) == Len(moves) - 1

\* finalize_puzzle: let start_pos = moves.len() - 2 (a 0-based index)
start_pos(moves) == Len(moves) - 2

PuzInit ==
    /\ game \in Games
    /\ lvl \in Levels
    /\ pzPc = "start"
    /\ from = 0 /\ to = 0 /\ scanIdx = 0
    /\ board = StartBoard
    /\ side_to_move = "White"
    /\ positions_and_eval = << >>
    /\ chosen = NoResult
    /\ result_notation = << >>
    /\ notation = << >>
    /\ asked = << >>
    /\ puzzle = NoResult
    /\ PgnIdle /\ EngIdle /\ HttpIdle /\ DeltaIdle

\* let (from, to) = rand_range_of_moves(moves);
\* let mut board = prepare_board(&moves[0..from], Chess::default());
\* let mut side_to_move = board.turn();
RandRange ==
    /\ pzPc = "start"
    /\ IF rand_to(Len(game)) = {}
       THEN /\ pzPc' = "panicked"
            /\ UNCHANGED <<from, to, scanIdx, board, side_to_move>>
       ELSE LET f == rand_from(Len(game))
                b == prepare_board(SubSeq(game, 1, f), StartBoard)
            IN  /\ \E t \in rand_to(Len(game)) : to' = t
                /\ from' = f
                /\ scanIdx' = f
                /\ board' = b.board
                /\ side_to_move' = Turn(b.board)
                /\ pzPc' = IF b.ok THEN "scan" ELSE "panicked"
    /\ UNCHANGED <<game, lvl, positions_and_eval, chosen, result_notation,
                   notation, asked, puzzle>>
    /\ UNCHANGED <<pgnVars, engVars, httpVars, deltaVars>>

\* A loop body that records the candidate's side but leaves the
\* generator's side_to_move as it was before the loop.
ScanStep_sideNotUpdated ==
    /\ pzPc = "scan"
    /\ scanIdx < to
    /\ LET played == Play(board, game[scanIdx + 1])
           fen == Fen(played.board)
           best == Play(played.board, BestMoveFor(fen))
       IN  IF ~played.ok \/ ~best.ok
           THEN /\ pzPc' = "panicked"
                /\ UNCHANGED <<scanIdx, board, side_to_move, positions_and_eval>>
           ELSE \E eval \in PuzzleEvals, best_eval \in PuzzleEvals :
                   /\ positions_and_eval' = Append(positions_and_eval,
                        [original_pos |-> [mv |-> game[scanIdx + 1],
                                           fen |-> fen, eval |-> eval],
                         delta |-> compute_delta(eval, best_eval),
                         side_to_move |-> Turn(played.board)])
                   /\ board' = played.board
                   /\ side_to_move' = side_to_move
                   /\ scanIdx' = scanIdx + 1
                   /\ pzPc' = "scan"
    /\ UNCHANGED <<game, lvl, from, to, chosen, result_notation, notation,
                   asked, puzzle>>
    /\ UNCHANGED <<pgnVars, engVars, httpVars, deltaVars>>

\* One iteration of `for i in from..to`: analyze_pos, analyze_best_move,
\* compute_delta, side_to_move = board.turn(), push
ScanStep ==
    /\ pzPc = "scan"
    /\ scanIdx < to
    /\ LET played == Play(board, game[scanIdx + 1])
           fen == Fen(played.board)
           best == Play(played.board, BestMoveFor(fen))
       IN  IF ~played.ok \/ ~best.ok
           THEN /\ pzPc' = "panicked"
                /\ UNCHANGED <<scanIdx, board, side_to_move, positions_and_eval>>
           ELSE \E eval \in PuzzleEvals, best_eval \in PuzzleEvals :
                   /\ positions_and_eval' = Append(positions_and_eval,
                        [original_pos |-> [mv |-> game[scanIdx + 1],
                                           fen |-> fen, eval |-> eval],
                         delta |-> compute_delta(eval, best_eval),
                         side_to_move |-> Turn(played.board)])
                   /\ board' = played.board
                   /\ side_to_move' = Turn(played.board)
                   /\ scanIdx' = scanIdx + 1
                   /\ pzPc' = "scan"
    /\ UNCHANGED <<game, lvl, from, to, chosen, result_notation, notation,
                   asked, puzzle>>
    /\ UNCHANGED <<pgnVars, engVars, httpVars, deltaVars>>

\* After the loop: highest_delta_position_for_side, prepare_result_notation
\* and the entry of finalize_puzzle (start_pos = moves.len() - 2, notation =
\* moves.to_vec())
SelectCandidate ==
    /\ pzPc = "scan"
    /\ scanIdx = to
    /\ LET hi == highest_delta_position_for_side(positions_and_eval, side_to_move)
       IN  IF hi = Panic("never empty")
           THEN /\ pzPc' = "panicked"
                /\ UNCHANGED <<chosen, result_notation, notation>>
           ELSE /\ chosen' = hi
                /\ result_notation' = prepare_result_notation(game, hi)
                /\ notation' = prepare_result_notation(game, hi)
                /\ pzPc' = IF Len(prepare_result_notation(game, hi)) < 2
                           THEN "panicked" ELSE "finalize"
    /\ UNCHANGED <<game, lvl, from, to, scanIdx, board, side_to_move,
                   positions_and_eval, asked, puzzle>>
    /\ UNCHANGED <<pgnVars, engVars, httpVars, deltaVars>>

\* One iteration of `for _ in 1..=(lvl_num * 2)` in finalize_puzzle
FinalizeStep ==
    /\ pzPc = "finalize"
    /\ Len(asked) < as_number(lvl) * 2
    /\ IF ~prepare_board(notation, StartBoard).ok
       THEN /\ pzPc' = "panicked"
            /\ UNCHANGED <<notation, asked>>
       ELSE /\ asked' = Append(asked, FinalizeFen(result_notation, notation))
            /\ notation' = Append(notation,
                   BestMoveFor(FinalizeFen(result_notation, notation)))
            /\ pzPc' = "finalize"
    /\ UNCHANGED <<game, lvl, from, to, scanIdx, board, side_to_move,
                   positions_and_eval, chosen, result_notation, puzzle>>
    /\ UNCHANGED <<pgnVars, engVars, httpVars, deltaVars>>

\* Puzzle { lvl, start_pos: moves[start_pos].clone(), notation }
FinalizeReturn ==
    /\ pzPc = "finalize"
    /\ Len(asked) = as_number(lvl) * 2
    /\ puzzle' = [lvl |-> lvl,
                  start_pos |-> result_notation[start_pos(result_notation) + 1],
                  notation |-> notation]
    /\ pzPc' = "done"
    /\ UNCHANGED <<game, lvl, from, to, scanIdx, board, side_to_move,
                   positions_and_eval, chosen, result_notation, notation,
                   asked>>
    /\ UNCHANGED <<pgnVars, engVars, httpVars, deltaVars>>

\* The engine fails inside eval_pos / best_move_for_pos: the call panics.
PuzzleEngineFailure ==
    /\ \/ pzPc = "scan" /\ scanIdx < to
       \/ pzPc = "finalize" /\ Len(asked) < as_number(lvl) * 2
    /\ pzPc' = "panicked"
    /\ UNCHANGED <<game, lvl, from, to, scanIdx, board, side_to_move,
                   positions_and_eval, chosen, result_notation, notation,
                   asked, puzzle>>
    /\ UNCHANGED <<pgnVars, engVars, httpVars, deltaVars>>

PuzNext ==
    \/ RandRange
    \/ ScanStep
    \/ SelectCandidate
    \/ FinalizeStep
    \/ FinalizeReturn
    \/ PuzzleEngineFailure

SpecPuzzle == PuzInit /\ [][PuzNext]_vars

\* The side being hunted: the side to move after the last scanned move
HuntedSide == Turn(prepare_board(SubSeq(game, 1, to), StartBoard).board)

\* Scan positions of the candidates recorded for the hunted side
Eligible ==
    {k \in DOMAIN positions_and_eval :
        positions_and_eval[k].side_to_move = HuntedSide}

\* The eligible candidates no other eligible candidate exceeds
MaxEligible ==
    {k \in Eligible :
        \A j \in Eligible :
            total_cmp(positions_and_eval[j].delta,
                      positions_and_eval[k].delta) # "Greater"}

\* C7: the chosen candidate is one of the recorded ones and its side to
\* move is the side to move after the last scanned move; a candidate of
\* the other side is never chosen, whatever its delta.
C7_ChosenSideIsHunted ==
    chosen # NoResult =>
        /\ chosen.side_to_move = HuntedSide
        /\ \E k \in Eligible : chosen = positions_and_eval[k]

\* A candidate of the other side had a strictly larger delta than the
\* chosen one.
C7_Witness ==
    /\ chosen # NoResult
    /\ \E k \in DOMAIN positions_and_eval :
          /\ positions_and_eval[k].side_to_move # HuntedSide
          /\ total_cmp(positions_and_eval[k].delta, chosen.delta) = "Greater"

\* C8 as stated: the chosen candidate has the maximum delta among the
\* eligible ones, and among several with that delta it is the one scanned
\* first.
C8_FirstMaxSelected ==
    chosen # NoResult =>
        /\ MaxEligible # {}
        /\ chosen = positions_and_eval[
               CHOOSE k \in MaxEligible : \A j \in MaxEligible : k <= j]

\* C8 amended: the chosen candidate has the maximum delta among the
\* eligible ones, and among several with that delta it is the one scanned
\* last.
C8_LastMaxSelected ==
    chosen # NoResult =>
        /\ MaxEligible # {}
        /\ chosen = positions_and_eval[
               CHOOSE k \in MaxEligible : \A j \in MaxEligible : k >= j]

\* Two eligible candidates shared the maximal delta.
C8_Witness ==
    /\ chosen # NoResult
    /\ Cardinality(MaxEligible) >= 2

\* C9: a returned puzzle has 2 (Easy), 4 (Medium) or 6 (Hard) half-moves
\* more than the setup+blunder prefix.
C9_AppendedCount ==
    puzzle # NoResult =>
        /\ puzzle.lvl = lvl
        /\ Len(puzzle.notation) - Len(result_notation) =
               (CASE lvl = "Easy" -> 2 [] lvl = "Medium" -> 4 [] lvl = "Hard" -> 6)
        /\ (Len(puzzle.notation) - Len(result_notation)) % 2 = 0

\* A Hard puzzle was returned.
C9_Witness ==
    /\ puzzle # NoResult
    /\ puzzle.lvl = "Hard"
    /\ Len(puzzle.notation) = Len(result_notation) + 6

\* C10: a returned puzzle's notation replays legally from the start
\* position; its prefix is a prefix of the game, and each appended move is
\* the engine's answer for the position reached by the moves before it.
C10_NotationReplays ==
    puzzle # NoResult =>
        LET n == Len(result_notation)
        IN  /\ prepare_board(puzzle.notation, StartBoard).ok
            /\ n <= Len(game)
            /\ SubSeq(puzzle.notation, 1, n) = SubSeq(game, 1, n)
            /\ Len(puzzle.notation) = n + Len(asked)
            /\ \A j \in 1..Len(asked) :
                  /\ asked[j] = Fen(prepare_board(
                         SubSeq(puzzle.notation, 1, n + j - 1), StartBoard).board)
                  /\ puzzle.notation[n + j] = BestMoveFor(asked[j])

\* A Medium puzzle was returned after four engine answers.
C10_Witness ==
    /\ puzzle # NoResult
    /\ puzzle.lvl = "Medium"
    /\ Len(asked) = 4

\* The length of the setup+blunder prefix of a returned puzzle
PrefixLen == Len(puzzle.notation) - 2 * as_number(puzzle.lvl)

\* C11 as stated: the start position of a returned puzzle is the last move
\* of the setup+blunder prefix, the move right before the first appended
\* solution move.
C11_StartIsLastPrefixMove ==
    puzzle # NoResult => puzzle.start_pos = puzzle.notation[PrefixLen]

\* C11 amended: the start position of a returned puzzle is the
\* second-to-last move of the setup+blunder prefix, the move right before
\* the prefix's last move.
C11_StartIsBeforeLastPrefixMove ==
    puzzle # NoResult =>
        /\ PrefixLen >= 2
        /\ puzzle.start_pos = puzzle.notation[PrefixLen - 1]
        /\ puzzle.start_pos = game[PrefixLen - 1]

\* An Easy puzzle was returned whose start position differs from the last
\* move of its prefix.
C11_Witness ==
    /\ puzzle # NoResult
    /\ puzzle.lvl = "Easy"
    /\ puzzle.start_pos # puzzle.notation[PrefixLen]

(***************************************************************************)
(* rand_range_of_moves on long games: the range step of the generator on   *)
(* its own, for games up to MaxRangeLen half-moves.                        *)
(***************************************************************************)

\* The longest game the range is drawn for
MaxRangeLen == 20

RangeInit ==
    /\ game \in GamesUpTo(MaxRangeLen)
    /\ lvl \in Levels
    /\ pzPc = "start"
    /\ from = 0 /\ to = 0 /\ scanIdx = 0
    /\ board = StartBoard
    /\ side_to_move = "White"
    /\ positions_and_eval = << >>
    /\ chosen = NoResult
    /\ result_notation = << >>
    /\ notation = << >>
    /\ asked = << >>
    /\ puzzle = NoResult
    /\ PgnIdle /\ EngIdle /\ HttpIdle /\ DeltaIdle

RangeNext == RandRange

SpecRange == RangeInit /\ [][RangeNext]_vars

\* C12: for a game of 15 half-moves or more, rand_range_of_moves does not
\* panic and returns from = len / 3 and a to with from < to <= len - 1.
C12_RangeInBounds ==
    (pzPc # "start" /\ Len(game) >= 15) =>
        /\ pzPc = "scan"
        /\ from = Len(game) \div 3
        /\ from < to
        /\ to <= Len(game) - 1

\* The largest value was drawn for a game of 15 half-moves or more.
C12_Witness ==
    /\ pzPc = "scan"
    /\ Len(game) >= 15
    /\ to = Len(game) - 2

(***************************************************************************)
(* compute_delta on its own: one call with arguments drawn from the check  *)
(* state and the scores -MaxScore..MaxScore.                               *)
(***************************************************************************)

\* The largest score, in either direction
MaxScore == 5

DeltaEvals == {Check} \cup {Eval(x) : x \in (0 - MaxScore)..MaxScore}

DeltaInit ==
    /\ deltaPos \in DeltaEvals
    /\ deltaBest \in DeltaEvals
    /\ deltaRet = NoResult
    /\ PgnIdle /\ EngIdle /\ HttpIdle /\ PuzIdle

\* let delta = compute_delta(&pos_data.eval, &best_pos_data.eval)
CallComputeDelta ==
    /\ deltaRet = NoResult
    /\ deltaRet' = compute_delta(deltaPos, deltaBest)
    /\ UNCHANGED <<deltaPos, deltaBest>>
    /\ UNCHANGED <<pgnVars, engVars, httpVars, puzVars>>

DeltaNext == CallComputeDelta

SpecDelta == DeltaInit /\ [][DeltaNext]_vars

\* C20: for two scores a and b the delta is |a - b|, the same as for -a
\* and -b; for a check state and a score b it is |b|; a delta is never
\* negative.
C20_DeltaSymmetric ==
    deltaRet # NoResult =>
        /\ (~deltaPos.chk /\ ~deltaBest.chk) =>
              LET a == deltaPos.score
                  b == deltaBest.score
              IN  /\ deltaRet = [inf |-> FALSE,
                                 v |-> IF a >= b THEN a - b ELSE b - a]
                  /\ deltaRet = compute_delta([chk |-> FALSE, score |-> 0 - a],
                                              [chk |-> FALSE, score |-> 0 - b])
        /\ (deltaPos.chk /\ ~deltaBest.chk) =>
              deltaRet = [inf |-> FALSE,
                          v |-> IF deltaBest.score >= 0 THEN deltaBest.score
                                ELSE 0 - deltaBest.score]
        /\ ~deltaRet.inf => deltaRet.v >= 0

\* The delta of the scores -2 and 3 was computed.
C20_Witness ==
    /\ deltaRet # NoResult
    /\ deltaPos = [chk |-> FALSE, score |-> 0 - 2]
    /\ deltaBest = [chk |-> FALSE, score |-> 3]
    /\ deltaRet = [inf |-> FALSE, v |-> 5]

\* C21: the delta is infinite exactly when both evaluations are check
\* states; with at least one score among the two it is finite.
C21_InfiniteOnlyBothCheck ==
    deltaRet # NoResult =>
        (deltaRet.inf <=> (deltaPos.chk /\ deltaBest.chk))

\* The 0-based scan index at which the chosen candidate was recorded
ChosenScanIndex ==
    from + (CHOOSE k \in DOMAIN positions_and_eval :
                positions_and_eval[k] = chosen) - 1

\* C23: the prefix returned for the chosen candidate, recorded at scan
\* index i, is moves[0..=i]: it ends at the first move whose position
\* encoding equals the candidate's, has between from + 1 and to moves, and
\* is not the whole game.
C23_PrefixEndsAtCandidate ==
    chosen # NoResult =>
        LET n == Len(result_notation)
        IN  /\ n = ChosenScanIndex + 1
            /\ result_notation = SubSeq(game, 1, n)
            /\ from + 1 <= n /\ n <= to
            /\ n < Len(game)
            /\ FenAfter(game, n) = chosen.original_pos.fen
            /\ \A j \in 1..(n - 1) : FenAfter(game, j) # chosen.original_pos.fen

\* The chosen candidate's piece placement had already occurred earlier in
\* the game.
C23_Witness ==
    /\ chosen # NoResult
    /\ \E j \in 1..(Len(result_notation) - 1) :
          FenAfter(game, j).placement = chosen.original_pos.fen.placement

(***************************************************************************)
(*        THE SERVICE'S GENERATOR  (domain/puzzle.rs), ONE RUN             *)
(*                                                                         *)
(* One run of domain::puzzle::generate_puzzle_by_position_analysis on a    *)
(* validated game, using the generator's variables: game is pgn.moves(),   *)
(* from..=to the range, scanIdx the move_idx being analysed,               *)
(* positions_and_eval the PositionData values, chosen the best_position,   *)
(* result_notation the puzzle_moves, asked the best-move exchanges.  The   *)
(* engine answers a best-move request with a 4- or 5-character move or     *)
(* with "(none)", and an eval request with any evaluation; it may fail,    *)
(* which panics the run.                                                   *)
(***************************************************************************)

\* The longest validated game of a run
MaxServiceLen == 6

\* The validated games: canonical 4- and 5-character moves in turn
ServiceGames ==
    { [k \in 1..len |-> IF k % 2 = 1 THEN <<"e", "2", "e", "4">>
                                     ELSE <<"e", "7", "e", "8", "Q">>] :
        len \in 0..MaxServiceLen }

\* The second field of the engine's bestmove line
EngineMoves == { <<"g", "1", "f", "3">>, <<"a", "7", "a", "8", "q">>,
                 <<"(", "n", "o", "n", "e", ")">> }

\* impl FromStr for Move; promotion << >> stands for None
Move_from_str(s) ==
    IF Len(s) = 4
    THEN [ok |-> TRUE, from |-> SubSeq(s, 1, 2), to |-> SubSeq(s, 3, 4),
          promotion |-> << >>]
    ELSE IF Len(s) = 5
    THEN [ok |-> TRUE, from |-> SubSeq(s, 1, 2), to |-> SubSeq(s, 3, 4),
          promotion |-> SubSeq(s, 5, 5)]
    ELSE [ok |-> FALSE, from |-> << >>, to |-> << >>, promotion |-> << >>]

\* moves.iter().take(n)
Take(moves, n) == SubSeq(moves, 1, IF n < Len(moves) THEN n ELSE Len(moves))

ServiceInit ==
    /\ game \in ServiceGames
    /\ lvl = "Easy"
    /\ pzPc = "start"
    /\ from = 0 /\ to = 0 /\ scanIdx = 0
    /\ board = NoResult
    /\ side_to_move = "White"
    /\ positions_and_eval = << >>
    /\ chosen = NoResult
    /\ result_notation = << >>
    /\ notation = << >>
    /\ asked = << >>
    /\ puzzle = NoResult
    /\ PgnIdle /\ EngIdle /\ HttpIdle /\ DeltaIdle

\* rand_range_of_moves(&pgn): from..=to
ServiceRange ==
    /\ pzPc = "start"
    /\ IF Len(game) = 0
       THEN \/ /\ pzPc' = "panicked"
               /\ UNCHANGED <<from, to, scanIdx>>
            \/ /\ \E t \in domain_overflow_to : to' = t
               /\ from' = 0
               /\ scanIdx' = 0
               /\ pzPc' = "scan"
       ELSE IF domain_rand_to(Len(game)) = {}
       THEN /\ pzPc' = "panicked"
            /\ UNCHANGED <<from, to, scanIdx>>
       ELSE /\ \E t \in domain_rand_to(Len(game)) : to' = t
            /\ from' = domain_rand_from(Len(game))
            /\ scanIdx' = domain_rand_from(Len(game))
            /\ pzPc' = "scan"
    /\ UNCHANGED <<game, lvl, board, side_to_move, positions_and_eval, chosen,
                   result_notation, notation, asked, puzzle>>
    /\ UNCHANGED <<pgnVars, engVars, httpVars, deltaVars>>

\* analyze_pos(move_idx, &pgn, stockfish) for the next move_idx of the range
ServiceAnalyze ==
    /\ pzPc = "scan"
    /\ scanIdx <= to
    /\ \E eval \in PuzzleEvals, best_mv \in EngineMoves, best_eval \in PuzzleEvals :
          /\ positions_and_eval' = Append(positions_and_eval,
                 [pos |-> scanIdx, best_mv |-> best_mv,
                  delta |-> compute_delta(eval, best_eval)])
          /\ asked' = Append(asked,
                 [base |-> Take(game, scanIdx), answer |-> best_mv])
    /\ scanIdx' = scanIdx + 1
    /\ UNCHANGED <<game, lvl, pzPc, from, to, board, side_to_move, chosen,
                   result_notation, notation, puzzle>>
    /\ UNCHANGED <<pgnVars, engVars, httpVars, deltaVars>>

\* max_by over the range, puzzle_moves, Move::from_str of each, the result
ServiceAssemble ==
    /\ pzPc = "scan"
    /\ scanIdx = to + 1
    /\ LET best_position == max_by(Head(positions_and_eval),
                                   Tail(positions_and_eval))
           puzzle_moves == Append(Take(game, best_position.pos),
                                  best_position.best_mv)
           final_moves == [k \in DOMAIN puzzle_moves |->
                              Move_from_str(puzzle_moves[k])]
       IN  /\ chosen' = best_position
           /\ result_notation' = puzzle_moves
           /\ IF \A k \in DOMAIN final_moves : final_moves[k].ok
              THEN /\ puzzle' = [moves |-> final_moves,
                                 start_pos |-> best_position.pos]
                   /\ pzPc' = "done"
              ELSE /\ puzzle' = puzzle
                   /\ pzPc' = "final_stage_error"
    /\ UNCHANGED <<game, lvl, from, to, scanIdx, board, side_to_move,
                   positions_and_eval, notation, asked>>
    /\ UNCHANGED <<pgnVars, engVars, httpVars, deltaVars>>

\* The engine fails inside eval_pos_moves / best_move_for_pos_moves.
ServiceEngineFailure ==
    /\ pzPc = "scan"
    /\ scanIdx <= to
    /\ pzPc' = "panicked"
    /\ UNCHANGED <<game, lvl, from, to, scanIdx, board, side_to_move,
                   positions_and_eval, chosen, result_notation, notation,
                   asked, puzzle>>
    /\ UNCHANGED <<pgnVars, engVars, httpVars, deltaVars>>

ServiceNext ==
    \/ ServiceRange
    \/ ServiceAnalyze
    \/ ServiceAssemble
    \/ ServiceEngineFailure

SpecService == ServiceInit /\ [][ServiceNext]_vars

\* C25: a puzzle returned for a validated game of length L has
\* L/3 <= start_pos <= L-2 and start_pos + 1 moves: the first start_pos
\* moves of the game, then the engine's best move for the position after
\* them.
C25_ServicePuzzleShape ==
    puzzle # NoResult =>
        LET L == Len(game)
            s == puzzle.start_pos
        IN  /\ L \div 3 <= s /\ s <= L - 2
            /\ Len(puzzle.moves) = s + 1
            /\ \A k \in 1..s : puzzle.moves[k] = Move_from_str(game[k])
            /\ \E i \in DOMAIN asked :
                  /\ asked[i].base = SubSeq(game, 1, s)
                  /\ puzzle.moves[s + 1] = Move_from_str(asked[i].answer)

(***************************************************************************)
(*        THE SELECTION NEVER MEETS AN EMPTY SET  (puzzle.rs)             *)
(***************************************************************************)

\* C26: when the loop over from..to has ended, the window was not empty,
\* the candidates of the final side to move include the last scanned one,
\* and highest_delta_position_for_side does not fail with "never empty",
\* whatever the game and the engine's answers.
C26_SelectionNeverEmpty ==
    (pzPc = "scan" /\ scanIdx = to) =>
        /\ from < to
        /\ Len(positions_and_eval) = to - from
        /\ positions_and_eval[to - from].side_to_move = side_to_move
        /\ highest_delta_position_for_side(positions_and_eval, side_to_move)
               # Panic("never empty")

\* The loop ended after two or more iterations and recorded a candidate of
\* the other side as well.
C26_Witness ==
    /\ pzPc = "scan" /\ scanIdx = to
    /\ to - from >= 2
    /\ \E k \in DOMAIN positions_and_eval :
          positions_and_eval[k].side_to_move # side_to_move

=============================================================================
